---- MODULE Spec2Model ----
(***************************************************************************)
(* Model of the ESPA product formatter's legacy converters:               *)
(*   convert_espa_to_gtif.c    (convert_espa_to_gtif)                     *)
(*   convert_hdf_to_old_hdf.c  (write_global_attributes,                  *)
(*                              write_sds_attributes, create_hdf_metadata,*)
(*                              convert_hdf_to_old_hdf)                   *)
(* C indices are kept 0-based (bnd, i, band indices); TLA+ sequences are  *)
(* 1-based, so band i of the C array is xml_metadata.band[i + 1].         *)
(* Floating values are integers counted in units of ESPA_EPSILON.         *)
(***************************************************************************)
EXTENDS Integers, Sequences, FiniteSets, TLC

VARIABLES
    xml_metadata,   \* the parsed metadata: [global, nbands, band]
    pc,             \* position in convert_hdf_to_old_hdf / create_hdf_metadata
    bnd,            \* create_hdf_metadata: slot of hdfname_mapping being written
    i,              \* create_hdf_metadata: next band index the inner loop looks at
    bnd_found,      \* create_hdf_metadata: was the current slot found
    hdf,            \* the HDF container: [created, sds, gattr, closed, eos]
    hdr,            \* the ENVI header written for the HDF file, or "none"
    errlog,         \* the messages given to error_handler, in order
    ret,            \* return value of the conversion, "NONE" while running
    gtif_file,      \* convert_espa_to_gtif: the base output name, "none" otherwise
    gdal            \* convert_espa_to_gtif: the calls of system (), in order

vars ==
    <<xml_metadata, pc, bnd, i, bnd_found, hdf, hdr, errlog, ret, gtif_file, gdal>>

----------------------------------------------------------------------------
(* Bounds of the model *)

\* band lists are rotated by 0..MaxRot places (and optionally reversed)
MaxRot == 1
\* two modern identifiers at most MaxDropSpan slots apart are left out together
MaxDropSpan == 2

----------------------------------------------------------------------------
(* Constants of the program *)

NOLD_SR == 17

hdfname_mapping ==
    << <<"sr_band1", "band1">>,
       <<"sr_band2", "band2">>,
       <<"sr_band3", "band3">>,
       <<"sr_band4", "band4">>,
       <<"sr_band5", "band5">>,
       <<"sr_band7", "band7">>,
       <<"sr_atmos_opacity", "atmos_opacity">>,
       <<"sr_fill_qa", "fill_QA">>,
       <<"sr_ddv_qa", "DDV_QA">>,
       <<"sr_cloud_qa", "cloud_QA">>,
       <<"sr_cloud_shadow_qa", "cloud_shadow_QA">>,
       <<"sr_snow_qa", "snow_QA">>,
       <<"sr_land_water_qa", "land_water_QA">>,
       <<"sr_adjacent_cloud_qa", "adjacent_cloud_QA">>,
       <<"toa_band6", "band6">>,
       <<"toa_band6_qa", "band6_fill_QA">>,
       <<"fmask", "fmask_band">> >>

\* hdfname_mapping[bnd][0] and hdfname_mapping[bnd][1] of the C table
ModernName(b) == hdfname_mapping[b + 1][1]
\* mutant: the SDS is created under the modern identifier
LegacyName_mut(b) == hdfname_mapping[b + 1][1]
LegacyName(b) == hdfname_mapping[b + 1][2]

\* espa_metadata.h: the sentinels of absent fields, floats in units of ESPA_EPSILON
ESPA_EPSILON == 1
UnitsPerOne == 100000
ESPA_INT_META_FILL == -3333
ESPA_FLOAT_META_FILL == -333300000
ESPA_STRING_META_FILL == "undefined"
\* an int constant converted to the floating type of the field it is compared with
IntToFloat(n) == n * UnitsPerOne

\* common.h / envi_header.h
STR_SIZE == 1024
MESSAGE_SIZE == 5000
MAX_ENVI_BANDS == 200

SUCCESS == "SUCCESS"
ERROR == "ERROR"

----------------------------------------------------------------------------
(* C library functions *)

Abs(x) == IF x < 0 THEN -x ELSE x
Min(a, b) == IF a < b THEN a ELSE b

\* strcmp (a, b) == 0
StrEq(a, b) == a = b
\* strncmp (a, b, n) == 0
StrNEq(a, b, n) == SubSeq(a, 1, Min(n, Len(a))) = SubSeq(b, 1, Min(n, Len(b)))

\* <<0, 1, ..., n-1>>: the values of a loop "for (i = 0; i < n; i++)"
Range(n) == [k \in 1..n |-> k - 1]

----------------------------------------------------------------------------
(* Attributes: what put_attr_string / put_attr_double are called with *)

Attr(name, type, val) == [name |-> name, type |-> type, val |-> val]

\* the names of a sequence of attributes, in order, and as a set
AttrNames(calls) == [k \in 1..Len(calls) |-> calls[k].name]
AttrNameSet(calls) == {calls[k].name : k \in 1..Len(calls)}

\* xml_metadata->band[idx]; a read past the end of the array yields no band record
NoBand == [name |-> "<out of bounds>"]
BandAt(meta, idx) ==
    IF idx >= 0 /\ idx < meta.nbands THEN meta.band[idx + 1] ELSE NoBand

----------------------------------------------------------------------------
(* write_sds_attributes *)

\* fabs (x - ESPA_FLOAT_META_FILL) > ESPA_EPSILON
FloatNotFill(x) == Abs(x - ESPA_FLOAT_META_FILL) > ESPA_EPSILON

\* mutant: one element of the range differing from the sentinel is enough
HasValidRange_mut(bmeta) ==
    \/ bmeta.valid_range[1] # ESPA_INT_META_FILL
    \/ bmeta.valid_range[2] # ESPA_INT_META_FILL

HasValidRange(bmeta) ==
    /\ bmeta.valid_range[1] # ESPA_INT_META_FILL
    /\ bmeta.valid_range[2] # ESPA_INT_META_FILL

\* mutant: the saturate value is written whether or not it is the sentinel
HasSaturate_mut(bmeta) == TRUE
HasSaturate(bmeta) == bmeta.saturate_value # ESPA_INT_META_FILL

\* the float field is compared, exactly, with the integer sentinel
HasScaleFactor(bmeta) == bmeta.scale_factor # IntToFloat(ESPA_INT_META_FILL)

HasAddOffset(bmeta) == bmeta.add_offset # IntToFloat(ESPA_INT_META_FILL)

HasCalibratedNt(bmeta) == FloatNotFill(bmeta.calibrated_nt)

HasBitmap(bmeta) == bmeta.nbits # ESPA_INT_META_FILL /\ bmeta.nbits > 0

HasClasses(bmeta) == bmeta.nclass # ESPA_INT_META_FILL /\ bmeta.nclass > 0

HasAppVersion(bmeta) == ~StrEq(bmeta.app_version, ESPA_STRING_META_FILL)

BitmapHeader ==
    "\n\tBits are numbered from right to left (bit 0 = LSB, bit N = MSB):\n\tBit    Description\n"

ClassHeader == "\n\tClass  Description\n"

\* snprintf (tmp_msg, sizeof (tmp_msg), "\t%d      %s\n", num, text)
DescLine(num, text) == "\t" \o ToString(num) \o "      " \o text \o "\n"

\* The loop that appends one line per bit/class to message.  lines[k] is
\* <<number, text>>; the result is [ok, msg], ok = FALSE when a line does not
\* fit tmp_msg or the block does not fit message.
\* mutant: lines that do not fit are left out and the block is written
AppendLines_mut(message, lines, k) == [ok |-> TRUE, msg |-> message]

RECURSIVE AppendLines(_, _, _)
AppendLines(message, lines, k) ==
    IF k > Len(lines) THEN [ok |-> TRUE, msg |-> message]
    ELSE LET tmp_msg == DescLine(lines[k][1], lines[k][2])
         IN  IF Len(tmp_msg) >= STR_SIZE THEN [ok |-> FALSE, msg |-> message]
             ELSE IF Len(message) + Len(tmp_msg) >= MESSAGE_SIZE
                  THEN [ok |-> FALSE, msg |-> message]
                  ELSE AppendLines(message \o tmp_msg, lines, k + 1)

\* bit i is numbered i; class i is numbered class_values[i].class
BitLines(bmeta) ==
    [k \in 1..bmeta.nbits |-> <<k - 1, bmeta.bitmap_description[k]>>]
ClassLines(bmeta) ==
    [k \in 1..bmeta.nclass |->
        <<bmeta.class_values[k].class, bmeta.class_values[k].description>>]

BitmapBlock(bmeta) == AppendLines(BitmapHeader, BitLines(bmeta), 1)
ClassBlock(bmeta) == AppendLines(ClassHeader, ClassLines(bmeta), 1)

\* The attribute writes write_sds_attributes makes for a band, in order, when
\* every write succeeds: [calls, overflow]; overflow = TRUE when the function
\* returns ERROR after these calls because a description does not fit.
SdsAttrPlan(bmeta) ==
    LET opt(present, a) == IF present THEN <<a>> ELSE <<>>
        head ==
               <<Attr("long_name", "DFNT_CHAR8", bmeta.long_name),
                 Attr("units", "DFNT_CHAR8", bmeta.data_units)>>
            \o opt(HasValidRange(bmeta),
                   Attr("valid_range", "DFNT_INT32", bmeta.valid_range))
            \o <<Attr("_FillValue", "DFNT_INT32", <<bmeta.fill_value>>)>>
            \o opt(HasSaturate(bmeta),
                   Attr("_SaturateValue", "DFNT_INT32", <<bmeta.saturate_value>>))
            \o opt(HasScaleFactor(bmeta),
                   Attr("scale_factor", "DFNT_FLOAT32", <<bmeta.scale_factor>>))
            \o opt(HasAddOffset(bmeta),
                   Attr("add_offset", "DFNT_FLOAT64", <<bmeta.add_offset>>))
            \o opt(HasCalibratedNt(bmeta),
                   Attr("calibrated_nt", "DFNT_FLOAT32", <<bmeta.calibrated_nt>>))
        bits == BitmapBlock(bmeta)
        withBits ==
            head \o opt(HasBitmap(bmeta),
                        Attr("Bitmap description", "DFNT_CHAR8", bits.msg))
        cls == ClassBlock(bmeta)
        withClasses ==
            withBits \o opt(HasClasses(bmeta),
                            Attr("Class description", "DFNT_CHAR8", cls.msg))
        all ==
            withClasses \o opt(HasAppVersion(bmeta),
                               Attr("app_version", "DFNT_CHAR8", bmeta.app_version))
    IN  IF HasBitmap(bmeta) /\ ~bits.ok THEN [calls |-> head, overflow |-> TRUE]
        ELSE IF HasClasses(bmeta) /\ ~cls.ok
             THEN [calls |-> withBits, overflow |-> TRUE]
             ELSE [calls |-> all, overflow |-> FALSE]

----------------------------------------------------------------------------
(* write_global_attributes *)

IsTM(instrument) == StrEq(instrument, "TM")
IsETM(instrument) == StrNEq(instrument, "ETM", 3)
\* mutant: OLI_TIRS recognised by its first three characters, as ETM is
IsOLI_TIRS_mut(instrument) == StrNEq(instrument, "OLI_TIRS", 3)
IsOLI_TIRS(instrument) == StrEq(instrument, "OLI_TIRS")

\* the number of bands each instrument's loop visits, and its pan band
TM_NBANDS == 7
ETM_NBANDS == 8
OLI_NBANDS == 11
ETM_PAN == 8
OLI_PAN == 7

\* which of the visited band indices go to the reflective arrays
\* mutant: band 7 (index 6) instead of band 6 (index 5) taken as thermal
TMIsRefl_mut(idx) == idx # 6
TMIsRefl(idx) == idx # 5
ETMIsRefl(idx) == idx # 5 /\ idx # 6
OLIIsThermal(idx) == idx = 9 \/ idx = 10
\* mutant: the pan band is not skipped
OLIIsRefl_mut(idx) == ~OLIIsThermal(idx)
OLIIsRefl(idx) == ~OLIIsThermal(idx) /\ idx # 7
TMIsThermal(idx) == ~TMIsRefl(idx)
ETMIsThermal(idx) == ~ETMIsRefl(idx)

\* mutant: one of band 0's gain and bias is enough
GainBiasExist_mutEither(meta) ==
    \/ FloatNotFill(BandAt(meta, 0).toa_gain)
    \/ FloatNotFill(BandAt(meta, 0).toa_bias)
\* mutant: the check reads band index 1
GainBiasExist_mut(meta) ==
    /\ FloatNotFill(BandAt(meta, 1).toa_gain)
    /\ FloatNotFill(BandAt(meta, 1).toa_bias)
\* "Use band 1 for this check.  If it doesn't exist then assume none exist."
GainBiasExist(meta) ==
    /\ FloatNotFill(BandAt(meta, 0).toa_gain)
    /\ FloatNotFill(BandAt(meta, 0).toa_bias)

\* the band indices whose gain/bias fill gain[]/bias[] and gain_thm[]/bias_thm[]
ReflIndices(instrument) ==
    IF IsTM(instrument) THEN SelectSeq(Range(TM_NBANDS), TMIsRefl)
    ELSE IF IsETM(instrument) THEN SelectSeq(Range(ETM_NBANDS), ETMIsRefl)
    ELSE IF IsOLI_TIRS(instrument) THEN SelectSeq(Range(OLI_NBANDS), OLIIsRefl)
    ELSE <<>>

ThermalIndices(instrument) ==
    IF IsTM(instrument) THEN SelectSeq(Range(TM_NBANDS), TMIsThermal)
    ELSE IF IsETM(instrument) THEN SelectSeq(Range(ETM_NBANDS), ETMIsThermal)
    ELSE IF IsOLI_TIRS(instrument) THEN SelectSeq(Range(OLI_NBANDS), OLIIsThermal)
    ELSE <<>>

\* mutant: the pan bands of the two instruments exchanged
PanIndex_mut(instrument) == IF IsETM(instrument) THEN OLI_PAN ELSE ETM_PAN
\* the band whose gain/bias is written as PanGain/PanBias
PanIndex(instrument) == IF IsETM(instrument) THEN ETM_PAN ELSE OLI_PAN

\* ngain_bias, ngain_bias_thm and the arrays after the instrument branches
Calibration(meta) ==
    LET inst == meta.global.instrument
        known == IsTM(inst) \/ IsETM(inst) \/ IsOLI_TIRS(inst)
        refl == IF known /\ GainBiasExist(meta) THEN ReflIndices(inst) ELSE <<>>
        thm == IF known /\ GainBiasExist(meta) THEN ThermalIndices(inst) ELSE <<>>
    IN  [ngain_bias |-> Len(refl),
         ngain_bias_thm |-> Len(thm),
         gain |-> [k \in 1..Len(refl) |-> BandAt(meta, refl[k]).toa_gain],
         bias |-> [k \in 1..Len(refl) |-> BandAt(meta, refl[k]).toa_bias],
         gain_thm |-> [k \in 1..Len(thm) |-> BandAt(meta, thm[k]).toa_gain],
         bias_thm |-> [k \in 1..Len(thm) |-> BandAt(meta, thm[k]).toa_bias]]

\* mutant: the pan values are written whether or not gains/biases exist
WritesPan_mut(meta) ==
    IsETM(meta.global.instrument) \/ IsOLI_TIRS(meta.global.instrument)
\* "Write pan gain/bias values if this is ETM+ or OLI_TIRS and the gains/biases
\*  exist in the metadata file"
WritesPan(meta) ==
    /\ IsETM(meta.global.instrument) \/ IsOLI_TIRS(meta.global.instrument)
    /\ Calibration(meta).ngain_bias > 0

\* The attribute writes write_global_attributes makes, in order, when every
\* write succeeds.
GlobalAttrPlan(meta) ==
    LET gmeta == meta.global
        cal == Calibration(meta)
        pan == BandAt(meta, PanIndex(gmeta.instrument))
    IN     <<Attr("DataProvider", "DFNT_CHAR8", gmeta.data_provider),
             Attr("Satellite", "DFNT_CHAR8", gmeta.satellite),
             Attr("Instrument", "DFNT_CHAR8", gmeta.instrument),
             Attr("AcquisitionDate", "DFNT_CHAR8", gmeta.acquisition_date),
             Attr("Level1ProductionDate", "DFNT_CHAR8",
                  gmeta.level1_production_date),
             Attr("LPGSMetadataFile", "DFNT_CHAR8", gmeta.lpgs_metadata_file),
             Attr("SolarZenith", "DFNT_FLOAT32", <<gmeta.solar_zenith>>),
             Attr("SolarAzimuth", "DFNT_FLOAT32", <<gmeta.solar_azimuth>>),
             Attr("WRS_System", "DFNT_INT16", <<gmeta.wrs_system>>),
             Attr("WRS_Path", "DFNT_INT16", <<gmeta.wrs_path>>),
             Attr("WRS_Row", "DFNT_INT16", <<gmeta.wrs_row>>)>>
        \o (IF cal.ngain_bias > 0
            THEN <<Attr("ReflGains", "DFNT_FLOAT64", cal.gain),
                   Attr("ReflBias", "DFNT_FLOAT64", cal.bias)>>
            ELSE <<>>)
        \o (IF cal.ngain_bias_thm > 0
            THEN <<Attr("ThermalGains", "DFNT_FLOAT64", cal.gain_thm),
                   Attr("ThermalBias", "DFNT_FLOAT64", cal.bias_thm)>>
            ELSE <<>>)
        \o (IF WritesPan(meta)
            THEN <<Attr("PanGain", "DFNT_FLOAT64", <<pan.toa_gain>>),
                   Attr("PanBias", "DFNT_FLOAT64", <<pan.toa_bias>>)>>
            ELSE <<>>)
        \o <<Attr("UpperLeftCornerLatLong", "DFNT_FLOAT64", gmeta.ul_corner),
             Attr("LowerRightCornerLatLong", "DFNT_FLOAT64", gmeta.lr_corner),
             Attr("WestBoundingCoordinate", "DFNT_FLOAT64",
                  <<gmeta.bounding_coords[1]>>),
             Attr("EastBoundingCoordinate", "DFNT_FLOAT64",
                  <<gmeta.bounding_coords[2]>>),
             Attr("NorthBoundingCoordinate", "DFNT_FLOAT64",
                  <<gmeta.bounding_coords[3]>>),
             Attr("SouthBoundingCoordinate", "DFNT_FLOAT64",
                  <<gmeta.bounding_coords[4]>>),
             Attr("HDFVersion", "DFNT_CHAR8", "H4_VERSION"),
             Attr("HDFEOSVersion", "DFNT_CHAR8", "PACKAGE_VERSION"),
             Attr("ProductionDate", "DFNT_CHAR8",
                  BandAt(meta, 0).production_date)>>

----------------------------------------------------------------------------
(* The metadata parse_metadata hands over: the inputs of a conversion *)

ESPA_TYPES ==
    <<"ESPA_INT8", "ESPA_UINT8", "ESPA_INT16", "ESPA_UINT16",
      "ESPA_INT32", "ESPA_UINT32", "ESPA_FLOAT32", "ESPA_FLOAT64">>

\* a band of the product that is no slot of hdfname_mapping
OtherBandName == "toa_band1"

\* The band at index idx of a band list: every field present, gain and bias
\* telling the bands apart.
MkBand(name, idx) ==
    [name |-> name,
     file_name |-> name \o ".img",
     data_type |-> ESPA_TYPES[(idx % Len(ESPA_TYPES)) + 1],
     nlines |-> 7000,
     nsamps |-> 8000,
     long_name |-> "band " \o ToString(idx),
     data_units |-> "reflectance",
     valid_range |-> <<-2000, 16000>>,
     fill_value |-> -9999,
     saturate_value |-> 20000,
     scale_factor |-> 10,
     add_offset |-> 0,
     calibrated_nt |-> 5,
     nbits |-> ESPA_INT_META_FILL,
     bitmap_description |-> <<>>,
     nclass |-> ESPA_INT_META_FILL,
     class_values |-> <<>>,
     app_version |-> "LEDAPS_2.2.0",
     toa_gain |-> 100 + idx,
     toa_bias |-> 200 + idx,
     production_date |-> "2014-08-07T" \o ToString(idx)]

MkGlobal(instrument) ==
    [data_provider |-> "USGS/EROS",
     satellite |-> "LANDSAT",
     instrument |-> instrument,
     acquisition_date |-> "2014-08-06",
     level1_production_date |-> "2014-08-07",
     lpgs_metadata_file |-> "scene_MTL.txt",
     solar_zenith |-> 3000000,
     solar_azimuth |-> 14000000,
     wrs_system |-> 2,
     wrs_path |-> 40,
     wrs_row |-> 33,
     ul_corner |-> <<4100000, -11000000>>,
     lr_corner |-> <<3900000, -10800000>>,
     bounding_coords |-> <<-11000000, -10800000, 4100000, 3900000>>]

MkMeta(instrument, names) ==
    [global |-> MkGlobal(instrument),
     nbands |-> Len(names),
     band |-> [k \in 1..Len(names) |-> MkBand(names[k], k - 1)]]

\* every modern identifier of the table in table order, then one other band
BaseNames ==
    [k \in 1..NOLD_SR + 1 |->
        IF k <= NOLD_SR THEN ModernName(k - 1) ELSE OtherBandName]

Rotate(s, r) == [k \in 1..Len(s) |-> s[((k - 1 + r) % Len(s)) + 1]]
Reverse(s) == [k \in 1..Len(s) |-> s[Len(s) + 1 - k]]

\* the band list without the modern identifiers of the slots in D
Without(names, D) ==
    LET kept(n) == \A b \in D : n # ModernName(b)
    IN  SelectSeq(names, kept)

\* slots left out: none, one, or two at most MaxDropSpan apart
DropSets ==
    {{}} \cup
    {{p[1], p[2]} :
        p \in {q \in (0..NOLD_SR - 1) \X (0..NOLD_SR - 1) :
                 q[2] >= q[1] /\ q[2] <= q[1] + MaxDropSpan}}

\* the band lists of the remap: some slots left out, or one identifier twice
NameLists ==
    {Without(BaseNames, D) : D \in DropSets} \cup
    {Append(BaseNames, ModernName(b)) : b \in 0..NOLD_SR - 1}

Permuted(names) ==
    {Rotate(names, r) : r \in 0..MaxRot} \cup
    {Reverse(Rotate(names, r)) : r \in 0..MaxRot}

\* band lists in which one band has a data type outside the enumeration
BadTypeMetas ==
    {[m EXCEPT !.band[k].data_type = "ESPA_UNKNOWN"] :
        m \in {MkMeta("TM", BaseNames)}, k \in 1..Len(BaseNames)}

RemapMetas ==
    {MkMeta("TM", p) : p \in UNION {Permuted(n) : n \in NameLists}}
    \cup BadTypeMetas

\* instrument identifiers: the three classes, and others
Instruments == {"TM", "ETM", "ETM+", "OLI_TIRS", "OLI", "MSS"}

\* One band's gain, bias or both set to the sentinel.
WithFill(m, idx, which) ==
    [m EXCEPT
        !.band[idx + 1].toa_gain =
            IF which \in {"gain", "both"} THEN ESPA_FLOAT_META_FILL ELSE @,
        !.band[idx + 1].toa_bias =
            IF which \in {"bias", "both"} THEN ESPA_FLOAT_META_FILL ELSE @]

CalMetas ==
    LET full == {MkMeta(inst, BaseNames) : inst \in Instruments}
    IN  full \cup
        {WithFill(m, idx, which) :
            m \in full, idx \in 0..OLI_NBANDS - 1,
            which \in {"gain", "bias", "both"}}

\* the optional fields of a band that one attribute each rests on
OptFields ==
    {"saturate_value", "scale_factor", "add_offset", "calibrated_nt",
     "nbits", "nclass", "app_version"}

\* A band with one optional field set to a valid value (present) or to its
\* sentinel, as init_metadata_struct / parse_metadata leave it.
SetField(b, f, present) ==
    CASE f = "saturate_value" ->
           [b EXCEPT !.saturate_value =
               IF present THEN 20000 ELSE ESPA_INT_META_FILL]
      [] f = "scale_factor" ->
           [b EXCEPT !.scale_factor =
               IF present THEN 10 ELSE ESPA_FLOAT_META_FILL]
      [] f = "add_offset" ->
           [b EXCEPT !.add_offset =
               IF present THEN 0 ELSE ESPA_FLOAT_META_FILL]
      [] f = "calibrated_nt" ->
           [b EXCEPT !.calibrated_nt =
               IF present THEN 5 ELSE ESPA_FLOAT_META_FILL]
      [] f = "nbits" ->
           [b EXCEPT !.nbits = IF present THEN 2 ELSE ESPA_INT_META_FILL,
                     !.bitmap_description =
                         IF present THEN <<"fill", "cloud">> ELSE <<>>]
      [] f = "nclass" ->
           [b EXCEPT !.nclass = IF present THEN 2 ELSE ESPA_INT_META_FILL,
                     !.class_values =
                         IF present
                         THEN <<[class |-> 0, description |-> "clear"],
                                [class |-> 255, description |-> "fill"]>>
                         ELSE <<>>]
      [] f = "app_version" ->
           [b EXCEPT !.app_version =
               IF present THEN "LEDAPS_2.2.0" ELSE ESPA_STRING_META_FILL]
      [] f = "toa_gain" ->
           [b EXCEPT !.toa_gain =
               IF present THEN 100 ELSE ESPA_FLOAT_META_FILL]

\* every band of m with exactly the optional fields of P present
RECURSIVE WithFields(_, _, _)
WithFields(b, P, todo) ==
    IF todo = {} THEN b
    ELSE LET f == CHOOSE x \in todo : TRUE
         IN  WithFields(SetField(b, f, f \in P), P, todo \ {f})

AttrMetas ==
    {[m EXCEPT !.band = [k \in 1..m.nbands |-> WithFields(m.band[k], P, OptFields)]] :
        m \in {MkMeta("TM", BaseNames), MkMeta("ETM+", BaseNames)},
        P \in SUBSET OptFields}

----------------------------------------------------------------------------
(* create_hdf_metadata *)

\* the switch on xml_metadata->band[i].data_type; "none" is the default case
HdfDataType(espa_type) ==
    CASE espa_type = "ESPA_INT8" -> "DFNT_INT8"
      [] espa_type = "ESPA_UINT8" -> "DFNT_UINT8"
      [] espa_type = "ESPA_INT16" -> "DFNT_INT16"
      [] espa_type = "ESPA_UINT16" -> "DFNT_UINT16"
      [] espa_type = "ESPA_INT32" -> "DFNT_INT32"
      [] espa_type = "ESPA_UINT32" -> "DFNT_UINT32"
      [] espa_type = "ESPA_FLOAT32" -> "DFNT_FLOAT32"
      [] espa_type = "ESPA_FLOAT64" -> "DFNT_FLOAT64"
      [] OTHER -> "none"

\* !strcmp (xml_metadata->band[idx].name, hdfname_mapping[b][0])
IsSlotBand(meta, b, idx) == StrEq(BandAt(meta, idx).name, ModernName(b))

\* The inner loop "continue"s over the bands that are not the slot's: the
\* first index >= from whose band is the slot's, nbands when there is none.
RECURSIVE NextMatch(_, _, _)
NextMatch(meta, b, from) ==
    IF from >= meta.nbands THEN meta.nbands
    ELSE IF IsSlotBand(meta, b, from) THEN from
    ELSE NextMatch(meta, b, from + 1)

\* "unless this is the last band (fmask) which is optional"
\* mutant: the optional slot is taken to lie past the end of the table
IsRequiredSlot_mut(b) == b # NOLD_SR
\* mutant: no slot is required
IsRequiredSlot_mutNone(b) == b < 0
IsRequiredSlot(b) == b # NOLD_SR - 1

Err(func, msg, arg) == [func |-> func, msg |-> msg, arg |-> arg]

\* mutant: the error is reported and the step is left to be taken again
Fail_mut(msgs) ==
    /\ errlog' = errlog \o msgs
    /\ UNCHANGED <<ret, pc>>
\* an ERROR return of create_hdf_metadata: its message(s), then its caller's
Fail(msgs) ==
    /\ errlog' = errlog \o msgs \o
           <<Err("convert_hdf_to_old_hdf", "Creating the HDF metadata file", "")>>
    /\ ret' = ERROR
    /\ pc' = "done"

LastSds == hdf.sds[Len(hdf.sds)]

Validate ==
    /\ pc = "validate"
    /\ \/ /\ pc' = "parse"
          /\ UNCHANGED <<ret>>
       \/ /\ pc' = "done"
          /\ ret' = ERROR
    /\ UNCHANGED <<gtif_file, gdal, xml_metadata, bnd, i,
                 bnd_found, hdf, hdr, errlog>>

Parse ==
    /\ pc = "parse"
    /\ \/ /\ pc' = "SDstart"
          /\ UNCHANGED <<ret>>
       \/ /\ pc' = "done"
          /\ ret' = ERROR
    /\ UNCHANGED <<gtif_file, gdal, xml_metadata, bnd, i,
                 bnd_found, hdf, hdr, errlog>>

SDstart ==
    /\ pc = "SDstart"
    /\ \/ /\ hdf' = [hdf EXCEPT !.created = TRUE]
          /\ bnd' = 0
          /\ i' = 0
          /\ bnd_found' = FALSE
          /\ pc' = "scan"
          /\ UNCHANGED <<errlog, ret>>
       \/ /\ Fail(<<Err("create_hdf_metadata", "Creating the HDF file", "")>>)
          /\ UNCHANGED <<hdf, bnd, i, bnd_found>>
    /\ UNCHANGED <<gtif_file, gdal, xml_metadata, hdr>>

\* The inner loop reaches a band of the current slot: the data type switch and
\* SDcreate.
CreateSds ==
    /\ pc = "scan"
    /\ LET m == NextMatch(xml_metadata, bnd, i)
           band == BandAt(xml_metadata, m)
           data_type == HdfDataType(band.data_type)
       IN  /\ m < xml_metadata.nbands
           /\ i' = m
           /\ bnd_found' = TRUE
           /\ IF data_type = "none"
              THEN /\ Fail(<<Err("create_hdf_metadata",
                                 "Unsupported ESPA data type.", "")>>)
                   /\ UNCHANGED hdf
              ELSE \/ /\ hdf' = [hdf EXCEPT !.sds = Append(@,
                                   [name |-> LegacyName(bnd),
                                    band |-> m,
                                    data_type |-> data_type,
                                    dims |-> <<band.nlines, band.nsamps>>,
                                    dimnames |-> <<>>,
                                    extfile |-> "none",
                                    attrs |-> <<>>,
                                    open |-> TRUE])]
                      /\ pc' = "dims"
                      /\ UNCHANGED <<errlog, ret>>
                   \/ /\ Fail(<<Err("create_hdf_metadata",
                                    "Creating SDS in the HDF file", bnd)>>)
                      /\ UNCHANGED hdf
    /\ UNCHANGED <<gtif_file, gdal, xml_metadata, bnd, hdr>>

\* The loop over the two dimensions: SDgetdimid, SDsetdimname for "YDim", then
\* for "XDim".  named = how many dimensions were named before a call failed.
SetDimNames ==
    /\ pc = "dims"
    /\ LET dim_name == <<"YDim", "XDim">>
       IN  \/ /\ hdf' = [hdf EXCEPT !.sds[Len(hdf.sds)].dimnames = dim_name]
              /\ pc' = "extfile"
              /\ UNCHANGED <<errlog, ret>>
           \/ \E named \in 0..1, call \in {"SDgetdimid", "SDsetdimname"} :
                /\ hdf' = [hdf EXCEPT !.sds[Len(hdf.sds)].dimnames =
                                          SubSeq(dim_name, 1, named)]
                /\ Fail(<<Err("create_hdf_metadata", call, named)>>)
    /\ UNCHANGED <<gtif_file, gdal, xml_metadata, bnd, i, bnd_found, hdr>>

SetExternalFile ==
    /\ pc = "extfile"
    /\ \/ /\ hdf' = [hdf EXCEPT !.sds[Len(hdf.sds)].extfile =
                                    BandAt(xml_metadata, i).file_name]
          /\ pc' = "sdsattr"
          /\ UNCHANGED <<errlog, ret>>
       \/ /\ Fail(<<Err("create_hdf_metadata",
                        "Setting the external dataset for this SDS", bnd)>>)
          /\ UNCHANGED hdf
    /\ UNCHANGED <<gtif_file, gdal, xml_metadata, bnd, i, bnd_found, hdr>>

\* write_sds_attributes on the band's SDS.  failed = 0: every write succeeds;
\* failed = k: the k-th write fails and the function returns.
WriteSdsAttributes ==
    /\ pc = "sdsattr"
    /\ LET plan == SdsAttrPlan(BandAt(xml_metadata, i))
           outer == Err("create_hdf_metadata",
                        "Writing band attributes for this SDS", bnd)
       IN  \E failed \in 0..Len(plan.calls) :
             IF failed > 0
             THEN /\ hdf' = [hdf EXCEPT !.sds[Len(hdf.sds)].attrs =
                                            SubSeq(plan.calls, 1, failed - 1)]
                  /\ Fail(<<Err("write_sds_attributes", "Writing attribute",
                                plan.calls[failed].name), outer>>)
             ELSE /\ hdf' = [hdf EXCEPT !.sds[Len(hdf.sds)].attrs = plan.calls]
                  /\ IF plan.overflow
                     THEN Fail(<<Err("write_sds_attributes", "Overflow", ""),
                                 outer>>)
                     ELSE /\ pc' = "endaccess"
                          /\ UNCHANGED <<errlog, ret>>
    /\ UNCHANGED <<gtif_file, gdal, xml_metadata, bnd, i, bnd_found, hdr>>

\* mutant: the inner loop goes on without ending the access to the SDS
SDendaccess_mut ==
    /\ pc = "endaccess"
    /\ i' = i + 1
    /\ pc' = "scan"
    /\ UNCHANGED <<gtif_file, gdal, xml_metadata, bnd, bnd_found, hdf,
                   hdr, errlog, ret>>
\* SDendaccess, and the inner loop's i++
SDendaccess ==
    /\ pc = "endaccess"
    /\ hdf' = [hdf EXCEPT !.sds[Len(hdf.sds)].open = FALSE]
    /\ i' = i + 1
    /\ pc' = "scan"
    /\ UNCHANGED <<gtif_file, gdal, xml_metadata, bnd, bnd_found,
                 hdr, errlog, ret>>

\* The inner loop runs out of bands: the check of bnd_found, and bnd++.
EndSlot ==
    /\ pc = "scan"
    /\ NextMatch(xml_metadata, bnd, i) = xml_metadata.nbands
    /\ IF ~bnd_found /\ IsRequiredSlot(bnd)
       THEN /\ Fail(<<Err("create_hdf_metadata",
                          "Band was not found in the XML file",
                          ModernName(bnd))>>)
            /\ UNCHANGED <<bnd, i, bnd_found>>
       ELSE /\ bnd' = bnd + 1
            /\ i' = 0
            /\ bnd_found' = FALSE
            /\ pc' = IF bnd + 1 < NOLD_SR THEN "scan" ELSE "global"
            /\ UNCHANGED <<errlog, ret>>
    /\ UNCHANGED <<gtif_file, gdal, xml_metadata, hdf, hdr>>

\* write_global_attributes on the file.  failed as in WriteSdsAttributes.
WriteGlobalAttributes ==
    /\ pc = "global"
    /\ LET calls == GlobalAttrPlan(xml_metadata)
       IN  \E failed \in 0..Len(calls) :
             IF failed > 0
             THEN /\ hdf' = [hdf EXCEPT !.gattr = SubSeq(calls, 1, failed - 1)]
                  /\ Fail(<<Err("write_global_attributes",
                                "Writing global attribute", calls[failed].name),
                            Err("create_hdf_metadata",
                                "Writing global attributes for this HDF file",
                                "")>>)
             ELSE /\ hdf' = [hdf EXCEPT !.gattr = calls]
                  /\ pc' = "SDend"
                  /\ UNCHANGED <<errlog, ret>>
    /\ UNCHANGED <<gtif_file, gdal, xml_metadata, bnd, i, bnd_found, hdr>>

\* mutant: the file is closed and the HDF-EOS attributes are passed over
SDend_mut ==
    /\ pc = "SDend"
    /\ hdf' = [hdf EXCEPT !.closed = TRUE]
    /\ pc' = "envi"
    /\ UNCHANGED <<gtif_file, gdal, xml_metadata, bnd, i, bnd_found, hdr,
                   errlog, ret>>
SDend ==
    /\ pc = "SDend"
    /\ hdf' = [hdf EXCEPT !.closed = TRUE]
    /\ pc' = "eos"
    /\ UNCHANGED <<gtif_file, gdal, xml_metadata, bnd, i,
                 bnd_found, hdr, errlog, ret>>

\* write_hdf_eos_attr_old
WriteHdfEosAttr ==
    /\ pc = "eos"
    /\ \/ /\ hdf' = [hdf EXCEPT !.eos = TRUE]
          /\ pc' = "envi"
          /\ UNCHANGED <<errlog, ret>>
       \/ /\ Fail(<<Err("create_hdf_metadata",
                        "Writing HDF-EOS attributes", "")>>)
          /\ UNCHANGED hdf
    /\ UNCHANGED <<gtif_file, gdal, xml_metadata, bnd, i, bnd_found, hdr>>

----------------------------------------------------------------------------
(* convert_hdf_to_old_hdf, after create_hdf_metadata *)

\* indx after the loop over the bands: the last band named sr_band1, -99 if none
\* mutant: the loop stops at the first band named sr_band1
EnviIndex_mut(meta, k, indx) == NextMatch(meta, 0, k)
RECURSIVE EnviIndex(_, _, _)
EnviIndex(meta, k, indx) ==
    IF k >= meta.nbands THEN indx
    ELSE EnviIndex(meta, k + 1, IF IsSlotBand(meta, 0, k) THEN k ELSE indx)

\* create_envi_struct, the check of MAX_ENVI_BANDS, write_envi_hdr, free_metadata
WriteEnviHeader ==
    /\ pc = "envi"
    /\ LET indx == EnviIndex(xml_metadata, 0, -99)
           fail(msg) ==
               /\ errlog' = Append(errlog, Err("convert_hdf_to_old_hdf", msg, ""))
               /\ ret' = ERROR
               /\ UNCHANGED hdr
       IN  \/ fail("Creating the ENVI header")
           \/ IF xml_metadata.nbands > MAX_ENVI_BANDS
              THEN fail("Number of bands being written exceeds the maximum")
              ELSE \/ fail("Writing the ENVI header")
                   \/ /\ hdr' = [band |-> indx, file_type |-> "HDF scientific data"]
                      /\ ret' = SUCCESS
                      /\ UNCHANGED errlog
    /\ pc' = "done"
    /\ UNCHANGED <<gtif_file, gdal, xml_metadata, bnd, i, bnd_found, hdf>>

----------------------------------------------------------------------------
(* Specifications *)

InitRun ==
    /\ pc = "validate"
    /\ bnd = 0
    /\ i = 0
    /\ bnd_found = FALSE
    /\ hdf = [created |-> FALSE, sds |-> <<>>, gattr |-> <<>>,
              closed |-> FALSE, eos |-> FALSE]
    /\ hdr = "none"
    /\ errlog = <<>>
    /\ ret = "NONE"
    /\ gtif_file = "none"
    /\ gdal = <<>>

\* conversions of band lists in any order, with slots missing or doubled
Init ==
    /\ xml_metadata \in RemapMetas
    /\ InitRun

\* conversions of complete band lists of every instrument, gains/biases absent
InitCal ==
    /\ xml_metadata \in CalMetas
    /\ InitRun

\* conversions of complete band lists, any set of the optional fields absent
InitAttr ==
    /\ xml_metadata \in AttrMetas
    /\ InitRun

Next ==
    \/ Validate
    \/ Parse
    \/ SDstart
    \/ CreateSds
    \/ SetDimNames
    \/ SetExternalFile
    \/ WriteSdsAttributes
    \/ SDendaccess
    \/ EndSlot
    \/ WriteGlobalAttributes
    \/ SDend
    \/ WriteHdfEosAttr
    \/ WriteEnviHeader

Spec == Init /\ [][Next]_vars

SpecCal == InitCal /\ [][Next]_vars

----------------------------------------------------------------------------
(* Properties of the legacy remap (create_hdf_metadata) *)

\* the indices of the band list whose band carries a name
BandsNamed(name) ==
    {k \in 0..xml_metadata.nbands - 1 : xml_metadata.band[k + 1].name = name}

\* the 16 required modern identifiers and the optional one, as the spec lists them
RequiredModern ==
    <<"sr_band1", "sr_band2", "sr_band3", "sr_band4", "sr_band5", "sr_band7",
      "sr_atmos_opacity", "sr_fill_qa", "sr_ddv_qa", "sr_cloud_qa",
      "sr_cloud_shadow_qa", "sr_snow_qa", "sr_land_water_qa",
      "sr_adjacent_cloud_qa", "toa_band6", "toa_band6_qa">>
RequiredLegacy ==
    <<"band1", "band2", "band3", "band4", "band5", "band7", "atmos_opacity",
      "fill_QA", "DDV_QA", "cloud_QA", "cloud_shadow_QA", "snow_QA",
      "land_water_QA", "adjacent_cloud_QA", "band6", "band6_fill_QA">>

\* the required slots (1..16) no band of the list carries
Missing == {b \in 1..Len(RequiredModern) : BandsNamed(RequiredModern[b]) = {}}
LeastOf(S) == CHOOSE b \in S : \A c \in S : b <= c

EachRequiredOnce ==
    /\ \A b \in 1..Len(RequiredModern) :
           Cardinality(BandsNamed(RequiredModern[b])) = 1
    /\ Cardinality(BandsNamed("fmask")) <= 1

SdsNames == [k \in 1..Len(hdf.sds) |-> hdf.sds[k].name]

\* the remap loop of create_hdf_metadata has run through every slot
RemapDone == bnd = NOLD_SR

\* the first message given to error_handler is the missing-band message
NotFoundReported ==
    /\ errlog # <<>>
    /\ errlog[1].msg = "Band was not found in the XML file"

\* C1: when the band list holds each required modern identifier exactly once
\* (fmask at most once), in whatever order, and the remap loop has run through,
\* the SDSs created are those of the slot table, in table order, under their
\* legacy names, followed by fmask_band exactly when fmask is in the list.
C1_SdsInTableOrder ==
    (RemapDone /\ EachRequiredOnce) =>
        SdsNames = RequiredLegacy \o
                   (IF BandsNamed("fmask") # {} THEN <<"fmask_band">> ELSE <<>>)

\* a converted list with fmask whose first band is not the first slot's
C1_Witness ==
    /\ ret = SUCCESS
    /\ EachRequiredOnce
    /\ xml_metadata.band[1].name # "sr_band1"
    /\ Len(hdf.sds) = NOLD_SR

\* C2: the remap loop runs through exactly when every required modern
\* identifier is in the band list.  When one is missing, the conversion ends
\* with ERROR, no SDS of a later slot was created, and, unless an external call
\* failed first, the message names the modern identifier of the first missing
\* slot in table order.  A list missing only fmask never gets that message and
\* never gets an fmask_band SDS.
C2_RequiredSlots ==
    LET missing == Missing
        first == LeastOf(missing)
    IN  /\ RemapDone => missing = {}
        /\ NotFoundReported =>
               /\ missing # {}
               /\ errlog[1].arg = RequiredModern[first]
        /\ missing # {} =>
               /\ \A k \in 1..Len(hdf.sds) :
                      \E b \in 1..first - 1 : hdf.sds[k].name = RequiredLegacy[b]
               /\ pc = "done" =>
                      /\ ret = ERROR
                      /\ \/ NotFoundReported
                         \/ errlog = <<>>
                         \/ errlog[1].func # "create_hdf_metadata"
                         \/ errlog[1].msg \in
                                {"Creating the HDF file",
                                 "Creating SDS in the HDF file",
                                 "SDgetdimid", "SDsetdimname",
                                 "Setting the external dataset for this SDS",
                                 "Unsupported ESPA data type."}
        /\ BandsNamed("fmask") = {} =>
               \A k \in 1..Len(hdf.sds) : hdf.sds[k].name # "fmask_band"

\* two required slots are missing and the conversion ended on the first
C2_Witness ==
    /\ pc = "done"
    /\ NotFoundReported
    /\ Cardinality(Missing) = 2
    /\ LeastOf(Missing) > 1
    /\ Len(hdf.sds) = LeastOf(Missing) - 1

\* C3 (as claimed): every slot gets at most one SDS, that of the first band in
\* list order carrying the slot's modern identifier.
C3_FirstMatchWins ==
    \A k \in 1..Len(hdf.sds) :
        /\ \A o \in 1..Len(hdf.sds) : hdf.sds[o].name = hdf.sds[k].name => o = k
        /\ \A j \in 0..hdf.sds[k].band - 1 :
               xml_metadata.band[j + 1].name
                   # xml_metadata.band[hdf.sds[k].band + 1].name

----------------------------------------------------------------------------
(* Properties of the calibration attributes (write_global_attributes) *)

\* write_global_attributes has returned SUCCESS
GlobalsWritten == pc = "SDend" \/ hdf.closed

\* a global attribute was written; the value written for it
HasGlobal(name) == \E k \in 1..Len(hdf.gattr) : hdf.gattr[k].name = name
GlobalAttr(name) ==
    hdf.gattr[CHOOSE k \in 1..Len(hdf.gattr) : hdf.gattr[k].name = name].val

\* the attribute was written, with this value
Wrote(name, val) == HasGlobal(name) /\ GlobalAttr(name) = val

CalAttrNames ==
    {"ReflGains", "ReflBias", "ThermalGains", "ThermalBias", "PanGain", "PanBias"}

\* gain and bias of the band at a C index, and the sentinel test of the spec
Gain(idx) == xml_metadata.band[idx + 1].toa_gain
Bias(idx) == xml_metadata.band[idx + 1].toa_bias
IsSentinel(x) == Abs(x - ESPA_FLOAT_META_FILL) <= ESPA_EPSILON

Instrument == xml_metadata.global.instrument
ETMFamily == {"ETM", "ETM+"}

\* C4: for instrument TM with bands 0..6 all carrying gain and bias, ReflGains
\* and ReflBias are the six values of bands 0,1,2,3,4,6 in that order,
\* ThermalGains and ThermalBias the one value of band 5, and there is no
\* PanGain and no PanBias.
C4_ClassA ==
    (/\ GlobalsWritten
     /\ Instrument = "TM"
     /\ \A k \in 0..6 : ~IsSentinel(Gain(k)) /\ ~IsSentinel(Bias(k)))
    => /\ Wrote("ReflGains",
              <<Gain(0), Gain(1), Gain(2), Gain(3), Gain(4), Gain(6)>>)
       /\ Wrote("ReflBias",
              <<Bias(0), Bias(1), Bias(2), Bias(3), Bias(4), Bias(6)>>)
       /\ Wrote("ThermalGains", <<Gain(5)>>)
       /\ Wrote("ThermalBias", <<Bias(5)>>)
       /\ ~HasGlobal("PanGain")
       /\ ~HasGlobal("PanBias")

C4_Witness ==
    /\ ret = SUCCESS
    /\ Instrument = "TM"
    /\ \A k \in 0..6 : ~IsSentinel(Gain(k)) /\ ~IsSentinel(Bias(k))
    /\ Wrote("ThermalGains", <<105>>)
    /\ Wrote("ReflBias", <<200, 201, 202, 203, 204, 206>>)

\* C5: for an instrument of the ETM family whose band 0 carries gain and bias,
\* ReflGains/ReflBias are the six values of bands 0,1,2,3,4,7 in that order,
\* ThermalGains/ThermalBias the two values of bands 5 and 6, and
\* PanGain/PanBias the value of band 8.
C5_ClassB ==
    (/\ GlobalsWritten
     /\ Instrument \in ETMFamily
     /\ ~IsSentinel(Gain(0)) /\ ~IsSentinel(Bias(0)))
    => /\ Wrote("ReflGains",
              <<Gain(0), Gain(1), Gain(2), Gain(3), Gain(4), Gain(7)>>)
       /\ Wrote("ReflBias",
              <<Bias(0), Bias(1), Bias(2), Bias(3), Bias(4), Bias(7)>>)
       /\ Wrote("ThermalGains", <<Gain(5), Gain(6)>>)
       /\ Wrote("ThermalBias", <<Bias(5), Bias(6)>>)
       /\ Wrote("PanGain", <<Gain(8)>>)
       /\ Wrote("PanBias", <<Bias(8)>>)

C5_Witness ==
    /\ ret = SUCCESS
    /\ Instrument = "ETM+"
    /\ Wrote("ReflGains", <<100, 101, 102, 103, 104, 107>>)
    /\ Wrote("ThermalBias", <<205, 206>>)
    /\ Wrote("PanGain", <<108>>)

\* C6: for instrument OLI_TIRS whose band 0 carries gain and bias,
\* ThermalGains/ThermalBias are the two values of bands 9 and 10 in that order,
\* ReflGains/ReflBias the eight values of bands 0,1,2,3,4,5,6,8, and
\* PanGain/PanBias the value of band 7.
C6_ClassC ==
    (/\ GlobalsWritten
     /\ Instrument = "OLI_TIRS"
     /\ ~IsSentinel(Gain(0)) /\ ~IsSentinel(Bias(0)))
    => /\ Wrote("ThermalGains", <<Gain(9), Gain(10)>>)
       /\ Wrote("ThermalBias", <<Bias(9), Bias(10)>>)
       /\ Wrote("ReflGains",
              <<Gain(0), Gain(1), Gain(2), Gain(3), Gain(4), Gain(5), Gain(6),
                  Gain(8)>>)
       /\ Wrote("ReflBias",
              <<Bias(0), Bias(1), Bias(2), Bias(3), Bias(4), Bias(5), Bias(6),
                  Bias(8)>>)
       /\ Wrote("PanGain", <<Gain(7)>>)
       /\ Wrote("PanBias", <<Bias(7)>>)

C6_Witness ==
    /\ ret = SUCCESS
    /\ Instrument = "OLI_TIRS"
    /\ Wrote("ThermalGains", <<109, 110>>)
    /\ Wrote("ReflGains", <<100, 101, 102, 103, 104, 105, 106, 108>>)
    /\ Wrote("PanBias", <<207>>)

\* C7: for TM, the ETM family and OLI_TIRS alike, when band 0's gain and bias
\* are the sentinel no calibration attribute is ever written, though the
\* other bands carry gains and biases.
C7_NoCalibrationWithoutBand0 ==
    (/\ Instrument \in {"TM", "OLI_TIRS"} \cup ETMFamily
     /\ IsSentinel(Gain(0)) /\ IsSentinel(Bias(0)))
    => \A k \in 1..Len(hdf.gattr) : hdf.gattr[k].name \notin CalAttrNames

C7_Witness ==
    /\ ret = SUCCESS
    /\ Instrument = "ETM+"
    /\ IsSentinel(Gain(0)) /\ IsSentinel(Bias(0))
    /\ \A k \in 1..10 : ~IsSentinel(Gain(k)) /\ ~IsSentinel(Bias(k))
    /\ HasGlobal("ProductionDate")

\* C8: PanGain and PanBias are written exactly when the instrument is of the
\* ETM family or OLI_TIRS and band 0 carries both gain and bias; never
\* without ReflGains.
C8_PanExactly ==
    GlobalsWritten =>
        LET pan == /\ Instrument \in {"OLI_TIRS"} \cup ETMFamily
                   /\ ~IsSentinel(Gain(0))
                   /\ ~IsSentinel(Bias(0))
        IN  /\ HasGlobal("PanGain") = pan
            /\ HasGlobal("PanBias") = pan
            /\ ~HasGlobal("ReflGains")
                   => ~HasGlobal("PanGain")

\* an OLI_TIRS scene whose band 0 has a gain and no bias: no pan values
C8_Witness ==
    /\ ret = SUCCESS
    /\ Instrument = "OLI_TIRS"
    /\ ~IsSentinel(Gain(0))
    /\ IsSentinel(Bias(0))
    /\ ~HasGlobal("PanGain")

OtherGlobalNames ==
    <<"DataProvider", "Satellite", "Instrument", "AcquisitionDate",
      "Level1ProductionDate", "LPGSMetadataFile", "SolarZenith", "SolarAzimuth",
      "WRS_System", "WRS_Path", "WRS_Row", "UpperLeftCornerLatLong",
      "LowerRightCornerLatLong", "WestBoundingCoordinate",
      "EastBoundingCoordinate", "NorthBoundingCoordinate",
      "SouthBoundingCoordinate", "HDFVersion", "HDFEOSVersion",
      "ProductionDate">>

\* C9: for an instrument that is not TM, not of the ETM family and not
\* OLI_TIRS no calibration attribute is ever written, whatever the gains and
\* biases; write_global_attributes fails only on a failed write of one of the
\* other attributes, and when all writes succeed it has written every other
\* global attribute and returned SUCCESS.
C9_UnknownInstrument ==
    Instrument \notin {"TM", "OLI_TIRS"} \cup ETMFamily =>
        /\ \A k \in 1..Len(hdf.gattr) : hdf.gattr[k].name \notin CalAttrNames
        /\ GlobalsWritten => AttrNames(hdf.gattr) = OtherGlobalNames
        /\ \A k \in 1..Len(errlog) :
               errlog[k].func = "write_global_attributes" =>
                   /\ errlog[k].msg = "Writing global attribute"
                   /\ \E n \in 1..Len(OtherGlobalNames) :
                          /\ errlog[k].arg = OtherGlobalNames[n]
                          /\ AttrNames(hdf.gattr) = SubSeq(OtherGlobalNames, 1, n - 1)

C9_Witness ==
    /\ ret = SUCCESS
    /\ Instrument = "OLI"
    /\ \A k \in 0..10 : ~IsSentinel(Gain(k)) /\ ~IsSentinel(Bias(k))
    /\ Len(hdf.gattr) = Len(OtherGlobalNames)

SpecAttr == InitAttr /\ [][Next]_vars

----------------------------------------------------------------------------
(* Properties of attribute suppression *)

SymDiff(A, B) == (A \ B) \cup (B \ A)

\* the attribute that rests on an optional field
AttrOf(f) ==
    CASE f = "saturate_value" -> "_SaturateValue"
      [] f = "scale_factor" -> "scale_factor"
      [] f = "add_offset" -> "add_offset"
      [] f = "calibrated_nt" -> "calibrated_nt"
      [] f = "nbits" -> "Bitmap description"
      [] f = "nclass" -> "Class description"
      [] f = "app_version" -> "app_version"

\* the optional field of a band is not its sentinel
FieldPresent(b, f) ==
    CASE f = "saturate_value" -> b.saturate_value # ESPA_INT_META_FILL
      [] f = "scale_factor" -> ~IsSentinel(b.scale_factor)
      [] f = "add_offset" -> ~IsSentinel(b.add_offset)
      [] f = "calibrated_nt" -> ~IsSentinel(b.calibrated_nt)
      [] f = "nbits" -> b.nbits # ESPA_INT_META_FILL
      [] f = "nclass" -> b.nclass # ESPA_INT_META_FILL
      [] f = "app_version" -> b.app_version # "undefined"
      [] f = "toa_gain" -> ~IsSentinel(b.toa_gain)

\* the metadata with one field of the band at a C index switched between its
\* sentinel and a valid value
Toggled(idx, f) ==
    [xml_metadata EXCEPT !.band[idx + 1] =
        SetField(@, f, ~FieldPresent(@, f))]

\* the attributes written for the band of SDS k and for the file, by name
Emitted(k) ==
    {<<"sds", hdf.sds[k].attrs[a].name>> : a \in 1..Len(hdf.sds[k].attrs)}
    \cup {<<"global", hdf.gattr[a].name>> : a \in 1..Len(hdf.gattr)}

\* the attributes a conversion of the metadata m writes for the band at a C
\* index and for the file, by name
EmittedFor(m, idx) ==
    {<<"sds", n>> : n \in AttrNameSet(SdsAttrPlan(BandAt(m, idx)).calls)}
    \cup {<<"global", n>> : n \in AttrNameSet(GlobalAttrPlan(m))}

\* what switching field f of the band of SDS k changes in the attributes written
Changes(k, f) ==
    SymDiff(Emitted(k), EmittedFor(Toggled(hdf.sds[k].band, f), hdf.sds[k].band))

\* C10 (as claimed): switching any one optional field of a band, the raw
\* calibration gain included, between its sentinel and a valid value changes
\* the presence of exactly one attribute.
C10_OneFieldOneAttribute ==
    GlobalsWritten =>
        \A k \in 1..Len(hdf.sds) : \A f \in OptFields \cup {"toa_gain"} :
            Cardinality(Changes(k, f)) = 1

\* the calibration attributes write_global_attributes writes for an instrument
CalAttrsOf(instrument) ==
    IF instrument = "TM"
    THEN {"ReflGains", "ReflBias", "ThermalGains", "ThermalBias"}
    ELSE IF instrument \in {"OLI_TIRS"} \cup ETMFamily THEN CalAttrNames
    ELSE {}

\* C10 (amended): switching one of saturate value, scale factor, additive
\* offset, calibrated-noise value, application version, bit-field count or
\* class-value count (between the sentinel and a positive count) changes the
\* presence of the one band attribute resting on it and of no other
\* attribute.  The raw calibration gain is no such field: band 0's gain, its
\* bias being present, switches all calibration attributes of the instrument
\* together, and no other band's gain changes the presence of any attribute.
C10_SuppressionBySentinel ==
    GlobalsWritten =>
        \A k \in 1..Len(hdf.sds) :
            /\ \A f \in OptFields : Changes(k, f) = {<<"sds", AttrOf(f)>>}
            /\ Changes(k, "toa_gain") =
                   IF hdf.sds[k].band = 0 /\ ~IsSentinel(Bias(0))
                   THEN {<<"global", n>> : n \in CalAttrsOf(Instrument)}
                   ELSE {}

\* a converted scene whose bands have a saturate value and a bit-field
\* description and no scale factor and no application version
C10_Witness ==
    /\ ret = SUCCESS
    /\ Len(hdf.sds) = NOLD_SR
    /\ \A k \in 1..Len(hdf.sds) :
           /\ <<"sds", "_SaturateValue">> \in Emitted(k)
           /\ <<"sds", "Bitmap description">> \in Emitted(k)
           /\ <<"sds", "scale_factor">> \notin Emitted(k)
           /\ <<"sds", "app_version">> \notin Emitted(k)
           /\ Changes(k, "scale_factor") = {<<"sds", "scale_factor">>}

----------------------------------------------------------------------------
(* Inputs of write_sds_attributes and write_global_attributes: bands and     *)
(* scenes whose text, floating, range and description fields take sentinel,  *)
(* near-sentinel and over-long values                                        *)

\* b with the fields of r put in place of its own
Over(b, r) == [f \in DOMAIN b |-> IF f \in DOMAIN r THEN r[f] ELSE b[f]]

\* a text of n characters
RECURSIVE Filler(_)
Filler(n) ==
    IF n <= 0 THEN ""
    ELSE IF n % 2 = 0 THEN LET h == Filler(n \div 2) IN h \o h
    ELSE "x" \o Filler(n - 1)

\* the characters "\t%d      %s\n" adds to a description for a one-digit number
LineExtra == Len(DescLine(0, ""))

\* n descriptions of which the first n-1 have 1000 characters, the block they
\* make with a header reaching total characters in all
BlockOf(header, n, total) ==
    [k \in 1..n |->
        IF k < n THEN Filler(1000)
        ELSE Filler(total - Len(header) - n * LineExtra - (n - 1) * 1000)]

ClassesOf(descs) ==
    [k \in 1..Len(descs) |-> [class |-> k - 1, description |-> descs[k]]]

TextVariants ==
    {[long_name |-> ESPA_STRING_META_FILL],
     [data_units |-> ESPA_STRING_META_FILL],
     [app_version |-> ESPA_STRING_META_FILL],
     [production_date |-> ESPA_STRING_META_FILL]}

\* floating fields at and around the sentinel, one unit being ESPA_EPSILON
FloatVariants ==
    UNION {{[scale_factor |-> ESPA_FLOAT_META_FILL + d],
            [add_offset |-> ESPA_FLOAT_META_FILL + d],
            [calibrated_nt |-> ESPA_FLOAT_META_FILL + d]} :
               d \in -2 * ESPA_EPSILON .. 2 * ESPA_EPSILON}

RangeVariants ==
    {[valid_range |-> <<lo, hi>>] :
        lo \in {ESPA_INT_META_FILL, 0}, hi \in {ESPA_INT_META_FILL, 255}}

\* bit descriptions: none, a count of 0 or below, lines and blocks that just
\* fit and that just do not fit tmp_msg and message
BitVariants ==
    {[nbits |-> n, bitmap_description |-> <<>>] : n \in {-1, 0}} \cup
    {[nbits |-> Len(d), bitmap_description |-> d] :
        d \in {<<"fill", "cloud">>,
               <<Filler(STR_SIZE - LineExtra - 1)>>,
               <<Filler(STR_SIZE - LineExtra)>>,
               <<"fill", Filler(STR_SIZE), "cloud">>,
               BlockOf(BitmapHeader, 5, MESSAGE_SIZE - 1),
               BlockOf(BitmapHeader, 5, MESSAGE_SIZE),
               BlockOf(BitmapHeader, 6, MESSAGE_SIZE + 500)}}

ClassVariants ==
    {[nclass |-> n, class_values |-> <<>>] : n \in {-1, 0}} \cup
    {[nclass |-> Len(d), class_values |-> ClassesOf(d)] :
        d \in {<<"clear", "water">>,
               <<Filler(STR_SIZE - LineExtra - 1)>>,
               <<Filler(STR_SIZE - LineExtra)>>,
               BlockOf(ClassHeader, 5, MESSAGE_SIZE - 1),
               BlockOf(ClassHeader, 5, MESSAGE_SIZE)}}

\* a band with both descriptions: the classes fit or do not fit
BothVariants ==
    {[nbits |-> 2, bitmap_description |-> <<"fill", "cloud">>,
      nclass |-> Len(d), class_values |-> ClassesOf(d)] :
        d \in {<<"clear", "water">>, BlockOf(ClassHeader, 5, MESSAGE_SIZE)}}

BandVariants ==
    TextVariants \cup FloatVariants \cup RangeVariants \cup BitVariants
    \cup ClassVariants \cup BothVariants

GlobalVariants ==
    {[data_provider |-> ESPA_STRING_META_FILL],
     [satellite |-> ESPA_STRING_META_FILL],
     [acquisition_date |-> ESPA_STRING_META_FILL],
     [level1_production_date |-> ESPA_STRING_META_FILL],
     [lpgs_metadata_file |-> ESPA_STRING_META_FILL]}

\* scenes of all the table's bands: every band with one variant, or the scene
\* record with one variant
SdsMetas ==
    LET m == MkMeta("TM", BaseNames)
    IN  {[m EXCEPT !.band = [k \in 1..m.nbands |-> Over(m.band[k], v)]] :
            v \in BandVariants}
        \cup {[m EXCEPT !.global = Over(m.global, g)] : g \in GlobalVariants}
        \cup {MkMeta(ESPA_STRING_META_FILL, BaseNames)}

InitSds ==
    /\ xml_metadata \in SdsMetas
    /\ InitRun

SpecSds == InitSds /\ [][Next]_vars

----------------------------------------------------------------------------
(* Properties of the attributes of a band and of the scene *)

GlobalTextNames ==
    {"DataProvider", "Satellite", "Instrument", "AcquisitionDate",
     "Level1ProductionDate", "LPGSMetadataFile", "ProductionDate"}

SdsTextNames == {"long_name", "units", "app_version"}

\* the attributes written so far to SDS k, and to any SDS, by name
SdsAttrs(k) == hdf.sds[k].attrs
SdsBand(k) == xml_metadata.band[hdf.sds[k].band + 1]
HasSdsAttr(k, name) ==
    \E a \in 1..Len(SdsAttrs(k)) : SdsAttrs(k)[a].name = name
SdsAttr(k, name) ==
    SdsAttrs(k)[CHOOSE a \in 1..Len(SdsAttrs(k)) : SdsAttrs(k)[a].name = name].val

\* C11 (as claimed): no text attribute of the scene (DataProvider, Satellite,
\* Instrument, AcquisitionDate, Level1ProductionDate, LPGSMetadataFile,
\* ProductionDate) and no text attribute of a band (long_name, units,
\* app_version) is ever written with the sentinel string as its value.
C11_NoSentinelText ==
    /\ \A a \in 1..Len(hdf.gattr) :
           hdf.gattr[a].name \in GlobalTextNames
               => hdf.gattr[a].val # ESPA_STRING_META_FILL
    /\ \A k \in 1..Len(hdf.sds) : \A a \in 1..Len(SdsAttrs(k)) :
           SdsAttrs(k)[a].name \in SdsTextNames
               => SdsAttrs(k)[a].val # ESPA_STRING_META_FILL

\* write_sds_attributes has returned SUCCESS for SDS k
SdsDone(k) == ~hdf.sds[k].open

\* C12 (as claimed): scale_factor, add_offset and calibrated_nt are each
\* suppressed for every value of the field within ESPA_EPSILON of the float
\* sentinel, and written for every value farther away.
C12_EpsilonTolerant ==
    \A k \in 1..Len(hdf.sds) :
        \A f \in {"scale_factor", "add_offset", "calibrated_nt"} :
            /\ IsSentinel(SdsBand(k)[f]) => ~HasSdsAttr(k, f)
            /\ SdsDone(k) /\ ~IsSentinel(SdsBand(k)[f]) => HasSdsAttr(k, f)

\* both elements of the band's valid_range differ from the integer sentinel
RangeGiven(k) ==
    /\ SdsBand(k).valid_range[1] # ESPA_INT_META_FILL
    /\ SdsBand(k).valid_range[2] # ESPA_INT_META_FILL

\* C13: valid_range is written exactly when both elements of the band's
\* valid_range differ from the integer sentinel, as the two values low, high:
\* it is never written when an element is the sentinel, and it has been
\* written whenever the write of the attribute after it (_FillValue) was
\* reached, so whenever the writes before it succeeded.
C13_ValidRange ==
    \A k \in 1..Len(hdf.sds) :
        /\ HasSdsAttr(k, "valid_range") =>
               /\ RangeGiven(k)
               /\ SdsAttr(k, "valid_range") = SdsBand(k).valid_range
               /\ AttrNames(SdsAttrs(k))[3] = "valid_range"
        /\ (HasSdsAttr(k, "_FillValue") \/ SdsDone(k)) /\ RangeGiven(k)
               => HasSdsAttr(k, "valid_range")

\* a converted scene whose bands have valid_range = [0, 255], and one whose
\* bands have [sentinel, sentinel]
C13_Witness ==
    /\ ret = SUCCESS
    /\ Len(hdf.sds) = NOLD_SR
    /\ \A k \in 1..Len(hdf.sds) :
           /\ SdsBand(k).valid_range = <<0, 255>>
           /\ SdsAttr(k, "valid_range") = <<0, 255>>

C13_WitnessAbsent ==
    /\ ret = SUCCESS
    /\ Len(hdf.sds) = NOLD_SR
    /\ \A k \in 1..Len(hdf.sds) :
           /\ SdsBand(k).valid_range = <<ESPA_INT_META_FILL, ESPA_INT_META_FILL>>
           /\ ~HasSdsAttr(k, "valid_range")

\* the text block a description makes: the header, then "\t<n>      <text>\n"
\* for each of its lines in order; lines[j] = <<n, text>>
RECURSIVE BlockText(_, _)
BlockText(header, lines) ==
    IF lines = <<>> THEN header
    ELSE BlockText(header, SubSeq(lines, 1, Len(lines) - 1))
             \o "\t" \o ToString(lines[Len(lines)][1]) \o "      "
             \o lines[Len(lines)][2] \o "\n"

\* a line of the block does not fit STR_SIZE, or the block does not fit
\* MESSAGE_SIZE (each with its terminating null)
BlockTooLong(header, lines) ==
    \/ \E j \in 1..Len(lines) :
           Len(BlockText("", <<lines[j]>>)) >= STR_SIZE
    \/ Len(BlockText(header, lines)) >= MESSAGE_SIZE

BitsGiven(k) == SdsBand(k).nbits # ESPA_INT_META_FILL /\ SdsBand(k).nbits > 0
ClassesGiven(k) == SdsBand(k).nclass # ESPA_INT_META_FILL /\ SdsBand(k).nclass > 0

BitsOf(k) ==
    [j \in 1..SdsBand(k).nbits |-> <<j - 1, SdsBand(k).bitmap_description[j]>>]
ClassesIn(k) ==
    [j \in 1..SdsBand(k).nclass |->
        <<SdsBand(k).class_values[j].class,
          SdsBand(k).class_values[j].description>>]

\* write_sds_attributes has returned for SDS k
SdsReturned(k) == k < Len(hdf.sds) \/ pc \notin {"dims", "extfile", "sdsattr"}

\* C14: "Bitmap description" (likewise "Class description") is written only
\* for a count that is not the sentinel and is positive, and is then the
\* header followed by one line per bit (class) in index order; when a line
\* would not fit STR_SIZE or the block would not fit MESSAGE_SIZE,
\* write_sds_attributes returns ERROR and the description is not written for
\* the band, neither whole nor cut short; a description that fits is written
\* whenever write_sds_attributes returns SUCCESS.
C14_Descriptions ==
    \A k \in 1..Len(hdf.sds) :
        /\ HasSdsAttr(k, "Bitmap description") =>
               /\ BitsGiven(k)
               /\ ~BlockTooLong(BitmapHeader, BitsOf(k))
               /\ SdsAttr(k, "Bitmap description")
                      = BlockText(BitmapHeader, BitsOf(k))
        /\ HasSdsAttr(k, "Class description") =>
               /\ ClassesGiven(k)
               /\ ~BlockTooLong(ClassHeader, ClassesIn(k))
               /\ SdsAttr(k, "Class description")
                      = BlockText(ClassHeader, ClassesIn(k))
        /\ SdsDone(k) =>
               /\ HasSdsAttr(k, "Bitmap description") = BitsGiven(k)
               /\ HasSdsAttr(k, "Class description") = ClassesGiven(k)
        /\ (\/ BitsGiven(k) /\ BlockTooLong(BitmapHeader, BitsOf(k))
            \/ ClassesGiven(k) /\ BlockTooLong(ClassHeader, ClassesIn(k)))
               => /\ ~SdsDone(k)
                  /\ SdsReturned(k) => ret = ERROR /\ pc = "done"

\* a band whose five bit descriptions make a block of exactly MESSAGE_SIZE
\* characters: ERROR, the attributes before the description written
C14_Witness ==
    /\ ret = ERROR
    /\ hdf.sds # <<>>
    /\ LET k == Len(hdf.sds)
       IN  /\ BitsGiven(k)
           /\ Len(BitsOf(k)) = 5
           /\ Len(BlockText(BitmapHeader, BitsOf(k))) = MESSAGE_SIZE
           /\ HasSdsAttr(k, "calibrated_nt")
           /\ ~HasSdsAttr(k, "Bitmap description")
           /\ \E e \in 1..Len(errlog) : errlog[e].msg = "Overflow"

----------------------------------------------------------------------------
(* convert_espa_to_gtif *)

\* count < 0 || count >= sizeof (buffer), for the count snprintf returns
\* mutant: a text of exactly the buffer's size is taken to fit
Overflows_mut(count, size) == count < 0 \/ count > size
Overflows(count, size) == count < 0 \/ count >= size

\* snprintf (gtif_band, sizeof (gtif_band), "%s_%s.tif", gtif_file, name):
\* the text asked for; the buffer holds it whole when it does not overflow
GtifBandName(base, name) == base \o "_" \o name \o ".tif"

\* strchr (s, ' '): the place of the first blank, 0 when there is none
FirstBlank(s) ==
    LET at == {p \in 1..Len(s) : SubSeq(s, p, p) = " "}
    IN  IF at = {} THEN 0 ELSE CHOOSE p \in at : \A q \in at : p <= q

\* mutant: only the first blank is replaced
ReplaceBlanks_mut(s) ==
    LET p == FirstBlank(s)
    IN  IF p = 0 THEN s
        ELSE SubSeq(s, 1, p - 1) \o "_" \o SubSeq(s, p + 1, Len(s))
\* while ((cptr = strchr (gtif_band, ' ')) != NULL) *cptr = '_';
RECURSIVE ReplaceBlanks(_)
ReplaceBlanks(s) ==
    LET p == FirstBlank(s)
    IN  IF p = 0 THEN s
        ELSE ReplaceBlanks(SubSeq(s, 1, p - 1) \o "_" \o SubSeq(s, p + 1, Len(s)))

\* snprintf (gdal_cmd, sizeof (gdal_cmd), "gdal_translate ... %ld ... %s %s", ...)
GdalCmd(fill_value, file_name, gtif_band) ==
    "gdal_translate -of Gtiff -a_nodata " \o ToString(fill_value)
        \o " -co \"TFW=YES\" -q " \o file_name \o " " \o gtif_band

\* what system () returns: -1 when the command could not be run, otherwise the
\* command's termination status (0, or 256 for exit code 1)
SystemResults == {-1, 0, 256}

GtifFail(msg, arg) ==
    /\ errlog' = Append(errlog, Err("convert_espa_to_gtif", msg, arg))
    /\ ret' = ERROR
    /\ pc' = "done"

ValidateGtif ==
    /\ pc = "gtif_validate"
    /\ \/ /\ pc' = "gtif_parse"
          /\ UNCHANGED ret
       \/ /\ pc' = "done"
          /\ ret' = ERROR
    /\ UNCHANGED <<gtif_file, gdal, xml_metadata, bnd, i, bnd_found, hdf, hdr,
                   errlog>>

ParseGtif ==
    /\ pc = "gtif_parse"
    /\ \/ /\ pc' = "gtif_band"
          /\ i' = 0
          /\ UNCHANGED ret
       \/ /\ pc' = "done"
          /\ ret' = ERROR
          /\ UNCHANGED i
    /\ UNCHANGED <<gtif_file, gdal, xml_metadata, bnd, bnd_found, hdf, hdr,
                   errlog>>

\* one iteration of the loop over the bands
ConvertBand ==
    /\ pc = "gtif_band"
    /\ i < xml_metadata.nbands
    /\ LET band == BandAt(xml_metadata, i)
           asked == GtifBandName(gtif_file, band.name)
           gtif_band == ReplaceBlanks(asked)
           gdal_cmd == GdalCmd(band.fill_value, band.file_name, gtif_band)
       IN  IF Overflows(Len(asked), STR_SIZE)
           THEN /\ GtifFail("Overflow of gtif_file string", "")
                /\ UNCHANGED <<gdal, i>>
           ELSE IF Overflows(Len(gdal_cmd), STR_SIZE)
           THEN /\ GtifFail("Overflow of gdal_cmd string", "")
                /\ UNCHANGED <<gdal, i>>
           ELSE \E status \in SystemResults :
                  /\ gdal' = Append(gdal, [band |-> i, gtif_band |-> gtif_band,
                                           cmd |-> gdal_cmd, status |-> status])
                  /\ IF status = -1
                     THEN /\ GtifFail("Running gdal_translate", gdal_cmd)
                          /\ UNCHANGED i
                     ELSE /\ i' = i + 1
                          /\ UNCHANGED <<pc, errlog, ret>>
    /\ UNCHANGED <<gtif_file, xml_metadata, bnd, bnd_found, hdf, hdr>>

\* the loop is over: free_metadata, return (SUCCESS)
FinishGtif ==
    /\ pc = "gtif_band"
    /\ i >= xml_metadata.nbands
    /\ ret' = SUCCESS
    /\ pc' = "done"
    /\ UNCHANGED <<gtif_file, gdal, xml_metadata, bnd, i, bnd_found, hdf, hdr,
                   errlog>>

\* band lists whose names have blanks at the start, inside, doubled, at the
\* end, and a list whose second name is much longer than its first
GtifBandLists ==
    {<<"sr_band1", "band 1", "toa band6 qa">>,
     <<" a  b ", "fmask">>,
     <<"sr_band1", "sr_atmos_opacity", "b">>,
     <<"b", "long " \o Filler(100), "c">>}

\* base names: with and without blanks, and of lengths around those at which
\* "<base>_sr_band1.tif" and the command for it no longer fit STR_SIZE
GtifBases ==
    {"scene", "scene A", "my dir/scene A ", " "}
    \cup {Filler(STR_SIZE - n) \o " x" : n \in 10..20}
    \cup {"a " \o Filler(STR_SIZE - n) : n \in 80..90}

InitGtif ==
    /\ \E names \in GtifBandLists : xml_metadata = MkMeta("TM", names)
    /\ gtif_file \in GtifBases
    /\ pc = "gtif_validate"
    /\ bnd = 0
    /\ i = 0
    /\ bnd_found = FALSE
    /\ hdf = [created |-> FALSE, sds |-> <<>>, gattr |-> <<>>,
              closed |-> FALSE, eos |-> FALSE]
    /\ hdr = "none"
    /\ errlog = <<>>
    /\ ret = "NONE"
    /\ gdal = <<>>

NextGtif ==
    \/ ValidateGtif
    \/ ParseGtif
    \/ ConvertBand
    \/ FinishGtif

SpecGtif == InitGtif /\ [][NextGtif]_vars

----------------------------------------------------------------------------
(* Properties of convert_espa_to_gtif *)

GtifBand(j) == xml_metadata.band[j + 1]

\* the output name of band j before blanks are replaced, and its length
RawName(j) == gtif_file \o "_" \o GtifBand(j).name \o ".tif"
NameLength(j) == Len(gtif_file) + 1 + Len(GtifBand(j).name) + 4

CharAt(s, p) == SubSeq(s, p, p)

\* C15: the output name given to the converter for a band is the base name,
\* "_", the band's name and ".tif" with every blank, wherever it stands,
\* replaced by an underscore and every other character and the length
\* unchanged; it holds no blank, and replacing blanks in it again returns it
\* unchanged.
C15_OutputName ==
    \A k \in 1..Len(gdal) :
        LET raw == RawName(gdal[k].band)
            out == gdal[k].gtif_band
        IN  /\ Len(out) = NameLength(gdal[k].band)
            /\ Len(out) = Len(raw)
            /\ \A p \in 1..Len(raw) :
                   CharAt(out, p) =
                       IF CharAt(raw, p) = " " THEN "_" ELSE CharAt(raw, p)
            /\ \A p \in 1..Len(out) : CharAt(out, p) # " "
            /\ ReplaceBlanks(out) = out

\* base "scene A", band "band 1": "scene_A_band_1.tif"
C15_Witness ==
    /\ gtif_file = "scene A"
    /\ \E k \in 1..Len(gdal) :
           /\ GtifBand(gdal[k].band).name = "band 1"
           /\ gdal[k].gtif_band = "scene_A_band_1.tif"

\* the length of the command for band j
CmdLength(j) ==
    Len("gdal_translate -of Gtiff -a_nodata ")
        + Len(ToString(GtifBand(j).fill_value))
        + Len(" -co \"TFW=YES\" -q ") + Len(GtifBand(j).file_name) + 1
        + NameLength(j)

\* output name and command of band j fit their buffers of STR_SIZE
BandFits(j) == NameLength(j) < STR_SIZE /\ CmdLength(j) < STR_SIZE

\* C16: the converter is called for the bands in metadata order, once each;
\* when the output name or the command of a band does not fit STR_SIZE the
\* conversion returns ERROR without calling the converter for that band or
\* any later one, and every command passed holds the whole output name.
C16_NameBudget ==
    /\ \A k \in 1..Len(gdal) :
           /\ gdal[k].band = k - 1
           /\ BandFits(k - 1)
           /\ Len(gdal[k].cmd) = CmdLength(k - 1)
           /\ Len(gdal[k].gtif_band) = NameLength(k - 1)
           /\ SubSeq(gdal[k].cmd,
                     Len(gdal[k].cmd) - Len(gdal[k].gtif_band) + 1,
                     Len(gdal[k].cmd)) = gdal[k].gtif_band
    /\ \A j \in 0..xml_metadata.nbands - 1 :
           ~BandFits(j) =>
               /\ Len(gdal) <= j
               /\ pc = "done" => ret = ERROR
    /\ ret = SUCCESS => Len(gdal) = xml_metadata.nbands

\* the second band's name does not fit: one call, for the first band, and ERROR
C16_Witness ==
    /\ ret = ERROR
    /\ xml_metadata.nbands = 3
    /\ BandFits(0)
    /\ NameLength(1) >= STR_SIZE
    /\ Len(gdal) = 1
    /\ gdal[1].status = 0
    /\ errlog[1].msg = "Overflow of gtif_file string"

\* C17 (as claimed): when the converter reports a failure for a band, of
\* whatever kind, the converter is called for no later band and the
\* conversion does not return SUCCESS.
C17_ConverterFailureIsError ==
    \A k \in 1..Len(gdal) :
        gdal[k].status # 0 => Len(gdal) = k /\ ret # SUCCESS

----------------------------------------------------------------------------
(* Properties of failure in convert_hdf_to_old_hdf *)

\* what the conversion has put out: SDSs with their names, files and
\* attributes, global attributes, HDF-EOS attributes, the ENVI header
Output == <<hdf, hdr>>

\* C18: there is no retry and a failure ends the conversion.  No step is
\* taken once the conversion has returned; the step in which an error is
\* reported returns ERROR at once, creates no SDS, closes no file and writes
\* no header; no function reports an error twice.
C18_AbortOnFailure ==
    [][/\ ret = "NONE"
       /\ pc # "done"
       /\ errlog' # errlog => ret' = ERROR
       /\ ret' = ERROR =>
              /\ pc' = "done"
              /\ Len(hdf'.sds) = Len(hdf.sds)
              /\ hdf'.closed = hdf.closed
              /\ hdf'.eos = hdf.eos
              /\ hdr' = hdr
       /\ ret' # "NONE" => pc' = "done"
       /\ \A a, b \in 1..Len(errlog') :
              a # b => errlog'[a].func # errlog'[b].func]_vars

\* the third attribute write of the fourth SDS has failed: the conversion is
\* over with two attributes on that SDS and nothing written after them
C18_Witness ==
    /\ ret = ERROR
    /\ pc = "done"
    /\ Len(hdf.sds) = 4
    /\ LastSds.open
    /\ Len(LastSds.attrs) = 2
    /\ hdf.gattr = <<>>
    /\ ~hdf.closed
    /\ hdr = "none"
    /\ Len(errlog) = 3

\* the conversion has failed on an input error: a required band is not in the
\* band list, or a band of a slot has a data type the switch does not know
InputErrorReported ==
    /\ ret = ERROR
    /\ errlog # <<>>
    /\ errlog[1].msg \in {"Band was not found in the XML file",
                          "Unsupported ESPA data type."}

\* C19 (as claimed): when the conversion returns ERROR for an input error, no
\* HDF file has been created and no SDS and no attribute has been written.
C19_NoPartialOutput ==
    InputErrorReported =>
        /\ ~hdf.created
        /\ hdf.sds = <<>>
        /\ hdf.gattr = <<>>

----------------------------------------------------------------------------
(* Properties of the order of steps in convert_hdf_to_old_hdf *)

\* the steps in the order of a conversion; after "endaccess" the inner loop
\* goes on from "scan", and any step may return to the caller ("done")
StepOrder ==
    {<<"validate", "parse">>, <<"parse", "SDstart">>, <<"SDstart", "scan">>,
     <<"scan", "dims">>, <<"dims", "extfile">>, <<"extfile", "sdsattr">>,
     <<"sdsattr", "endaccess">>, <<"endaccess", "scan">>, <<"scan", "scan">>,
     <<"scan", "global">>, <<"global", "SDend">>, <<"SDend", "eos">>,
     <<"eos", "envi">>}

\* the slot of hdfname_mapping an SDS was created for
SlotOf(name) == CHOOSE b \in 0..NOLD_SR - 1 : LegacyName(b) = name

\* C21: a conversion is one pass in a fixed order: validate, parse, create
\* the file, then slot by slot in table order for each SDS create, name the
\* dimensions "YDim" and "XDim", link the external file, write the band
\* attributes, end access; then the global attributes, SDend, the HDF-EOS
\* attributes and the ENVI header.  No SDS is created once a global attribute
\* is written, and no global attribute is written before the last slot is done.
C21_SinglePass ==
    [][/\ <<pc, pc'>> \in StepOrder \/ pc' = "done"
       /\ bnd' \in {bnd, bnd + 1}
       /\ hdf'.created # hdf.created => pc = "SDstart" /\ hdf.sds = <<>>
       /\ Len(hdf'.sds) # Len(hdf.sds) =>
              /\ hdf.created /\ hdf.gattr = <<>> /\ ~hdf.closed
              /\ hdf'.sds = Append(hdf.sds, hdf'.sds[Len(hdf'.sds)])
              /\ hdf'.sds[Len(hdf'.sds)].name = LegacyName(bnd)
              /\ \A k \in 1..Len(hdf.sds) :
                     ~hdf.sds[k].open /\ SlotOf(hdf.sds[k].name) <= bnd
              /\ hdf'.sds[Len(hdf'.sds)].dimnames = <<>>
              /\ hdf'.sds[Len(hdf'.sds)].extfile = "none"
              /\ hdf'.sds[Len(hdf'.sds)].attrs = <<>>
       /\ (Len(hdf'.sds) = Len(hdf.sds) /\ hdf.sds # <<>>) =>
              /\ LastSds'.dimnames # LastSds.dimnames =>
                     /\ LastSds.dimnames = <<>> /\ LastSds.extfile = "none"
                     /\ LastSds'.dimnames \in {<<"YDim">>, <<"YDim", "XDim">>}
              /\ LastSds'.extfile # LastSds.extfile =>
                     LastSds.dimnames = <<"YDim", "XDim">> /\ LastSds.attrs = <<>>
              /\ LastSds'.attrs # LastSds.attrs =>
                     LastSds.extfile # "none" /\ LastSds.attrs = <<>> /\ LastSds.open
              /\ LastSds'.open # LastSds.open =>
                     LastSds.open /\ LastSds.attrs # <<>>
       /\ hdf'.gattr # hdf.gattr =>
              /\ bnd = NOLD_SR /\ hdf.gattr = <<>> /\ ~hdf.closed
              /\ \A k \in 1..Len(hdf.sds) : ~hdf.sds[k].open
       /\ hdf'.closed # hdf.closed =>
              ~hdf.closed /\ Len(hdf.gattr) >= Len(OtherGlobalNames) /\ ~hdf.eos
       /\ hdf'.eos # hdf.eos => hdf.closed /\ ret = "NONE"
       /\ ret' # SUCCESS => hdr' = hdr
       /\ ret' = SUCCESS =>
              /\ pc = "envi" /\ hdf.closed /\ hdf.eos
              /\ hdr'.file_type = "HDF scientific data"]_vars

\* a finished conversion: 17 SDSs, the global attributes, the file closed, the
\* HDF-EOS attributes and the ENVI header written
C21_Witness ==
    /\ ret = SUCCESS
    /\ Len(hdf.sds) = NOLD_SR
    /\ \A k \in 1..NOLD_SR :
           /\ hdf.sds[k].name = LegacyName(k - 1)
           /\ hdf.sds[k].dimnames = <<"YDim", "XDim">>
           /\ ~hdf.sds[k].open
    /\ hdf.gattr # <<>>
    /\ hdf.closed
    /\ hdf.eos
    /\ hdr.file_type = "HDF scientific data"

----------------------------------------------------------------------------
(* Properties of the band 0 check of write_global_attributes *)

\* C22: for TM, the ETM family and OLI_TIRS alike, when exactly one of band
\* 0's gain and bias is the sentinel and the other a valid value, no
\* reflective, thermal or panchromatic calibration attribute is ever written.
C22_HalfPairIsNoPair ==
    (/\ Instrument \in {"TM", "OLI_TIRS"} \cup ETMFamily
     /\ IsSentinel(Gain(0)) # IsSentinel(Bias(0)))
    => /\ \A k \in 1..Len(hdf.gattr) : hdf.gattr[k].name \notin CalAttrNames
       /\ GlobalsWritten => AttrNames(hdf.gattr) = OtherGlobalNames

\* a converted TM scene whose band 0 has a bias and no gain
C22_Witness ==
    /\ ret = SUCCESS
    /\ Instrument = "TM"
    /\ IsSentinel(Gain(0))
    /\ ~IsSentinel(Bias(0))
    /\ \A k \in 1..10 : ~IsSentinel(Gain(k)) /\ ~IsSentinel(Bias(k))
    /\ ~HasGlobal("ReflGains")
    /\ HasGlobal("ProductionDate")

----------------------------------------------------------------------------
(* Properties of the band records read (write_global_attributes and the remap) *)

\* lengths of the band lists cut short
ShortLens == {0, 1, TM_NBANDS, ETM_PAN, OLI_NBANDS - 1, NOLD_SR - 2}

\* Band lists of every length: the table's identifiers in table order cut
\* short, the 16 required ones alone, in order or reversed, one required one
\* left out, and a list of 16 bands in which five identifiers stand twice.
ReadNameLists ==
    {SubSeq(BaseNames, 1, n) : n \in ShortLens} \cup
    {BaseNames,
     SubSeq(BaseNames, 1, NOLD_SR - 1),
     Reverse(SubSeq(BaseNames, 1, NOLD_SR - 1)),
     Without(BaseNames, {0}),
     Without(BaseNames, {NOLD_SR - 2}),
     SubSeq(BaseNames, 1, OLI_NBANDS) \o SubSeq(BaseNames, 1, 5)}

ReadMetas == {MkMeta(inst, n) : inst \in Instruments, n \in ReadNameLists}

\* conversions of band lists of every length, for every instrument
InitRead ==
    /\ xml_metadata \in ReadMetas
    /\ InitRun

SpecRead == InitRead /\ [][Next]_vars

\* write_global_attributes has been entered
GlobalReached ==
    pc \in {"global", "SDend", "eos", "envi"} \/ hdf.gattr # <<>> \/ hdf.closed

\* the band indices write_global_attributes reads: band[0] for the check of
\* the gains/biases and for the production date, the bands of the
\* instrument's loop, and band[8] or band[7] for the pan gain/bias
GlobalReads(meta) ==
    LET inst == meta.global.instrument
        loop == IF ~GainBiasExist(meta) THEN {}
                ELSE IF IsTM(inst) THEN 0..TM_NBANDS - 1
                ELSE IF IsETM(inst) THEN 0..ETM_NBANDS - 1
                ELSE IF IsOLI_TIRS(inst) THEN 0..OLI_NBANDS - 1
                ELSE {}
    IN  {0} \cup loop \cup (IF WritesPan(meta) THEN {PanIndex(inst)} ELSE {})

\* C23: write_global_attributes is entered only after each of the 16 required
\* slots got its SDS; the band list then has at least 16 bands, and every band
\* index the function reads lies inside the list, whatever the instrument.
\* The remap too reads bands of the list only.
C23_ReadsInsideList ==
    /\ i >= 0 /\ i <= xml_metadata.nbands
    /\ pc \in {"dims", "extfile", "sdsattr", "endaccess"}
           => i < xml_metadata.nbands
    /\ \A k \in 1..Len(hdf.sds) :
           hdf.sds[k].band >= 0 /\ hdf.sds[k].band < xml_metadata.nbands
    /\ GlobalReached =>
        /\ \A b \in 0..NOLD_SR - 2 :
               \E k \in 1..Len(hdf.sds) : hdf.sds[k].name = LegacyName(b)
        /\ xml_metadata.nbands >= NOLD_SR - 1
        /\ \A idx \in GlobalReads(xml_metadata) :
               idx >= 0 /\ idx < xml_metadata.nbands
        /\ \A idx \in 0..OLI_NBANDS - 1 : idx < xml_metadata.nbands

\* an OLI_TIRS scene of exactly the 16 required bands whose calibration
\* attributes, read from bands 0 to 10, were written
C23_Witness ==
    /\ ret = SUCCESS
    /\ Instrument = "OLI_TIRS"
    /\ xml_metadata.nbands = NOLD_SR - 1
    /\ GlobalReads(xml_metadata) = 0..OLI_NBANDS - 1
    /\ HasGlobal("ReflGains") /\ HasGlobal("ThermalGains") /\ HasGlobal("PanGain")

----------------------------------------------------------------------------
(* Properties of the band handed to create_envi_struct *)

\* the band indices of the list named sr_band1
Band1Indices == BandsNamed(ModernName(0))

\* C24: whenever create_envi_struct is called, indx is an index of the band
\* list, the band there is named sr_band1 and no later band is; the
\* placeholder -99 is never the index.  The header written describes that band.
C24_EnviBandIsLastBand1 ==
    /\ pc = "envi" =>
        LET indx == EnviIndex(xml_metadata, 0, -99)
        IN  /\ indx # -99
            /\ indx >= 0 /\ indx < xml_metadata.nbands
            /\ indx \in Band1Indices
            /\ \A k \in Band1Indices : k <= indx
    /\ ret = SUCCESS =>
        /\ hdr.band \in Band1Indices
        /\ \A k \in Band1Indices : k <= hdr.band

\* a header written for the second of two bands named sr_band1
C24_Witness ==
    /\ ret = SUCCESS
    /\ Cardinality(Band1Indices) = 2
    /\ \E k \in Band1Indices : k < hdr.band
    /\ hdr.band \in Band1Indices

----------------------------------------------------------------------------
(* Properties of the open SDSs and of SDend (create_hdf_metadata) *)

\* the SDSs of the file not yet given to SDendaccess
OpenSds == {k \in 1..Len(hdf.sds) : hdf.sds[k].open}

\* C25: whatever the band list and whatever the external calls return, at most
\* one SDS is open at a time, and it is the one created last; none is open
\* when the global attributes are written or when SDend is called; SDend is
\* called at most once, and only after write_global_attributes wrote every
\* attribute.
C25_OneOpenSds ==
    /\ Cardinality(OpenSds) <= 1
    /\ OpenSds \subseteq {Len(hdf.sds)}
    /\ pc \in {"scan", "global", "SDend", "eos", "envi"} => OpenSds = {}
    /\ hdf.gattr # <<>> \/ hdf.closed => OpenSds = {}
    /\ pc = "SDend" =>
        /\ ~hdf.closed
        /\ hdf.gattr = GlobalAttrPlan(xml_metadata)
    /\ hdf.closed =>
        /\ hdf.gattr = GlobalAttrPlan(xml_metadata)
        /\ pc \in {"eos", "envi", "done"}
    /\ pc = "done" /\ ret = ERROR /\ hdf.gattr # GlobalAttrPlan(xml_metadata)
           => ~hdf.closed

\* a run given up with the second SDS of a doubled band still open, the first
\* one closed
C25_Witness ==
    /\ ret = ERROR
    /\ Len(hdf.sds) >= 2
    /\ OpenSds = {Len(hdf.sds)}
    /\ hdf.sds[Len(hdf.sds)].name = hdf.sds[Len(hdf.sds) - 1].name
    /\ ~hdf.closed

====
